---- MODULE Spec2Model ----
(***************************************************************************)
(* The Mach-O loader of cle (cle/backends/macho/__init__.py): the          *)
(* constructor MachO.__init__ reads the mach header, iterates the load     *)
(* commands and dispatches each to its handler, then runs the post-pass    *)
(* (_resolve_entry, _resolve_symbols, _parse_mod_funcs).                   *)
(*                                                                         *)
(* The input file is the variable `file`; it is fixed before the parse     *)
(* starts and never changes.  Its load-command region is held as the       *)
(* sequence of the decoded commands, laid out back to back, each with the  *)
(* `size` it declares; its other bytes are the byte sequence `bytes`.      *)
(*                                                                         *)
(* Values that do not fit TLC's integers are held symbolically: the magic  *)
(* numbers and the load-command numbers by name, and an address of the     *)
(* external area as its offset from ext_symbol_start.                      *)
(***************************************************************************)
EXTENDS Integers, Sequences, FiniteSets, TLC

(***************************************************************************)
(* Bounds of the model.                                                    *)
(***************************************************************************)
\* most load commands of a file
MaxCmds == 3
\* most nlist entries of a symbol table
MaxSyms == 2
\* most segment commands of a file of the segment family
MaxSegs == 2
\* largest vmsize / filesize of a segment of the segment family
MaxSize == 2
\* number of bytes of the file that segments may map
FileLen == 2
\* number of bytes of a file with data-in-code records
DiceLen == 24

(***************************************************************************)
(* Python values.                                                          *)
(***************************************************************************)
\* None, for the integer-valued fields that start unset
None == -1

\* truth value of an integer-or-None in an `if`
Truthy(x) == x # None /\ x # 0

Min(a, b) == IF a < b THEN a ELSE b

\* a blob attribute: None, or the byte string a read returned
NoBlob == [is_none |-> TRUE, bytes |-> <<>>]
Str(bs) == [is_none |-> FALSE, bytes |-> bs]

RECURSIVE SumSizes(_)
SumSizes(cs) == IF cs = <<>> THEN 0 ELSE Head(cs).size + SumSizes(Tail(cs))

(***************************************************************************)
(* Addresses.  A natural address is Abs(n); an address of the external     *)
(* area is Ext(k), standing for ext_symbol_start + k.                      *)
(***************************************************************************)
AddrNone == [base |-> "none", off |-> 0]
Abs(n) == [base |-> "abs", off |-> n]
Ext(k) == [base |-> "ext", off |-> k]

\* 2^32 - 0xff000000: the bytes between ext_symbol_start and the end of the
\* 32-bit address space
ExtSpan32 == 16777216

\* Ext(k) is an address of the image's address space.  On a 64-bit image the
\* area spans 2^56 bytes, more than any offset of this model.
InAddressSpace(b, k) == IF b = 32 THEN k < ExtSpan32 ELSE TRUE

(***************************************************************************)
(* Byte strings: `bytes` followed by `zeros` zero bytes.                   *)
(***************************************************************************)
Blob(bs, z) == [bytes |-> bs, zeros |-> z]
BlobLen(b) == Len(b.bytes) + b.zeros
BlobAt(b, i) == IF i <= Len(b.bytes) THEN b.bytes[i] ELSE 0

(***************************************************************************)
(* The input files.  A load command is a record of its decoded fields:     *)
(* `cmd` (by name), `size`, and what its handler unpacks.                  *)
(***************************************************************************)
\* size of the generic (cmd, size) header every handler starts from
CmdHeaderSize == 8

\* a command no branch of the dispatcher knows
Unknown(s) == [cmd |-> "LC_UUID", size |-> s]

Encryption(c, cryptid) == [cmd |-> c, size |-> CmdHeaderSize, cryptid |-> cryptid]

Main(entryoff) == [cmd |-> "LC_MAIN", size |-> CmdHeaderSize, entryoff |-> entryoff]

\* pc: the last register of the thread state the flavor selects
Unixthread(flavor, threadpc) ==
    [cmd |-> "LC_UNIXTHREAD", size |-> CmdHeaderSize, flavor |-> flavor, pc |-> threadpc]

Dylib(c, name) == [cmd |-> c, size |-> CmdHeaderSize, name |-> name]

Section(segname, sectname) == [segname |-> segname, sectname |-> sectname]

Segment(c, segname, vmaddr, vmsize, fileoff, filesize, sects) ==
    [cmd |-> c, size |-> CmdHeaderSize, segname |-> segname, vmaddr |-> vmaddr,
     vmsize |-> vmsize, fileoff |-> fileoff, filesize |-> filesize, sects |-> sects]

\* an nlist entry: n_type, n_sect, n_value, and what symbol.py derives from
\* n_type and n_desc; n_strx is 0, so the name is the empty string
Nlist(n_type, n_sect, n_value, common, import, ordinal) ==
    [n_type |-> n_type, n_sect |-> n_sect, n_value |-> n_value,
     is_common |-> common, is_import |-> import, library_ordinal |-> ordinal,
     name |-> <<>>]

\* the entry with the string at its n_strx: a name is the sequence of its
\* character codes
Named(nl, name) == [nl EXCEPT !.name = name]

Symtab(syms) == [cmd |-> "LC_SYMTAB", size |-> CmdHeaderSize, syms |-> syms]

\* the (offset, size) pairs of LC_DYLD_INFO(_ONLY); the rebase, binding,
\* weak-binding and lazy-binding blobs of the model are empty
DyldInfo(c, eoff, esize) ==
    [cmd |-> c, size |-> CmdHeaderSize, roff |-> 0, rsize |-> 0, boff |-> 0, bsize |-> 0,
     wboff |-> 0, wbsize |-> 0, lboff |-> 0, lbsize |-> 0, eoff |-> eoff, esize |-> esize]

FunctionStarts(dataoff, datasize) ==
    [cmd |-> "LC_FUNCTION_STARTS", size |-> CmdHeaderSize, dataoff |-> dataoff,
     datasize |-> datasize]

DataInCode(dataoff, datasize) ==
    [cmd |-> "LC_DATA_IN_CODE", size |-> CmdHeaderSize, dataoff |-> dataoff,
     datasize |-> datasize]

\* the bytes of the file: distinct and non-zero, so that each is told from
\* the others and from padding
FileBytes == [i \in 1..FileLen |-> i]

\* a file with a header the loader accepts, whose ncmds and sizeofcmds
\* describe its load commands
WellFormed(b, lcs) ==
    [host_is_little |-> TRUE,
     magic |-> IF b = 64 THEN "MH_MAGIC_64" ELSE "MH_MAGIC",
     cputype |-> IF b = 64 THEN 16777228 ELSE 12,
     flags |-> 128,
     ncmds |-> Len(lcs), sizeofcmds |-> SumSizes(lcs),
     lcs |-> lcs, bytes |-> FileBytes]

\* headers of every kind, in front of at most one command
HeaderFile(f) ==
    \E h \in BOOLEAN,
       m \in {"MH_MAGIC", "MH_MAGIC_64", "MH_CIGAM", "MH_CIGAM_64", "OTHER"},
       c \in {7, 12, 16777223, 16777228, 18},
       fl \in {0, 128, 2097152, 2097280},
       lcs \in {<<>>, <<Unknown(CmdHeaderSize)>>} :
        f = [host_is_little |-> h, magic |-> m, cputype |-> c, flags |-> fl,
             ncmds |-> Len(lcs), sizeofcmds |-> SumSizes(lcs), lcs |-> lcs,
             bytes |-> FileBytes]

\* any ncmds and sizeofcmds over commands of any declared size
LoopMenu ==
    {Unknown(0), Unknown(CmdHeaderSize), Main(16),
     Encryption("LC_ENCRYPTION_INFO", 0), Encryption("LC_ENCRYPTION_INFO_64", 1)}

LoopFile(f) ==
    \E k \in 0..MaxCmds, n \in 0..(MaxCmds + 1), z \in 0..(MaxCmds + 1) :
        \E lcs \in [1..k -> LoopMenu] :
            f = [WellFormed(32, lcs) EXCEPT !.ncmds = n, !.sizeofcmds = CmdHeaderSize * z]

\* entry-point commands and the segments _resolve_entry looks up
EntryMenu ==
    {Main(0), Main(16),
     Unixthread(1, 0), Unixthread(1, 32), Unixthread(6, 32), Unixthread(2, 32),
     Segment("LC_SEGMENT_64", "__PAGEZERO", 0, 4096, 0, 0, <<>>),
     Segment("LC_SEGMENT_64", "__TEXT", 4096, 0, 0, 0, <<>>),
     Segment("LC_SEGMENT", "__TEXT", 0, 0, 0, 0, <<>>)}

EntryFile(f) ==
    \E b \in {32, 64}, k \in 0..MaxCmds :
        \E lcs \in [1..k -> EntryMenu] : f = WellFormed(b, lcs)

\* dylib commands of the three kinds
DylibMenu ==
    {Dylib("LC_LOAD_DYLIB", "libA"), Dylib("LC_LOAD_WEAK_DYLIB", "libB"),
     Dylib("LC_REEXPORT_DYLIB", "libA"), Unknown(CmdHeaderSize)}

DylibFile(f) ==
    \E k \in 0..MaxCmds : \E lcs \in [1..k -> DylibMenu] : f = WellFormed(64, lcs)

\* segments of every shape: filesize below, at and above vmsize, file ranges
\* inside the file and beyond its end
SegMenu ==
    {Segment("LC_SEGMENT", "__DATA", 4096, vs, fo, fs, <<>>) :
        vs \in 0..MaxSize, fo \in 0..1, fs \in 0..MaxSize}
    \cup {Segment("LC_SEGMENT", "__PAGEZERO", 0, MaxSize, 0, fs, <<>>) : fs \in 0..1}

SegFile(f) ==
    \E k \in 0..MaxSegs : \E lcs \in [1..k -> SegMenu] : f = WellFormed(32, lcs)

\* symbol tables between dylib and segment commands
SymMenu ==
    {Nlist(15, 0, 4, FALSE, FALSE, 0), Nlist(15, 1, 0, FALSE, FALSE, 0),
     Nlist(1, 0, 0, FALSE, FALSE, 0),
     Nlist(1, 0, 0, TRUE, FALSE, 0), Nlist(1, 0, 4, TRUE, FALSE, 0),
     Nlist(1, 0, ExtSpan32, TRUE, FALSE, 0),
     Nlist(1, 0, 0, FALSE, TRUE, 0), Nlist(1, 0, 0, FALSE, TRUE, 1),
     Nlist(1, 0, 0, FALSE, TRUE, 2),
     Nlist(36, 1, 4, FALSE, FALSE, 0)}

SymBefore ==
    {<<>>, <<Dylib("LC_LOAD_DYLIB", "libA")>>,
     <<Segment("LC_SEGMENT_64", "__TEXT", 4096, 0, 0, 0, <<Section("__TEXT", "__text")>>)>>}

SymAfter == {<<>>, <<Dylib("LC_LOAD_WEAK_DYLIB", "libB")>>}

SymFile(f) ==
    \E b \in {32, 64}, before \in SymBefore, after \in SymAfter, k \in 0..MaxSyms :
        \E syms \in [1..k -> SymMenu] :
            f = WellFormed(b, before \o <<Symtab(syms)>> \o after)

(***************************************************************************)
(* Exports tries.  A node is: info_len, the terminal payload if info_len   *)
(* is not 0 (flags, then what the flags select), child_count, and for each *)
(* child its edge string, a NUL and the offset of the child node.          *)
(* 97 and 98 are the characters a and b.                                   *)
(***************************************************************************)
\* the root alone, a REGULAR terminal
TrieLeaf == <<2, 0, 5, 0>>
\* root -a-> node 5, a REEXPORT terminal (ordinal 1, target "b")
TrieReexport == <<0, 1, 97, 0, 5,  4, 8, 1, 98, 0, 0>>
\* root -a-> node 8, a STUB_AND_RESOLVER terminal; root -b-> node 13, a
\* REGULAR terminal
TrieMixed == <<0, 2, 97, 0, 8, 98, 0, 13,  3, 16, 1, 2, 0,  2, 0, 5, 0>>
\* the root alone, a REGULAR terminal whose info_len is a two-byte ULEB
TrieLongInfo == <<129, 1, 0, 5, 0>>
\* the only child of the root is the root, over the empty edge
TrieSelfLoop == <<0, 1, 0, 0>>
\* root -> node 4 -> root, over empty edges
TrieBackEdge == <<0, 1, 0, 4,  0, 1, 0, 0>>
\* the tries every node of which is complete and reached over one path
WellFormedTries == {TrieLeaf, TrieReexport, TrieMixed, TrieLongInfo}
\* no trie of the model ends inside a string or a ULEB
TrieMenu == WellFormedTries \cup {TrieSelfLoop, TrieBackEdge}

\* the segments in front of the dyld-info command: __TEXT is the second
ExportSegs ==
    <<Segment("LC_SEGMENT_64", "__PAGEZERO", 0, 4096, 0, 0, <<>>),
      Segment("LC_SEGMENT_64", "__TEXT", 4096, 4, 0, 4, <<>>),
      Segment("LC_SEGMENT_64", "__DATA", 8192, 4, 4, 4, <<>>)>>

\* a stab and two undefined symbols, two of them named like an export
ExportSymMenu ==
    {Named(Nlist(36, 1, 4, FALSE, FALSE, 0), <<97>>),
     Named(Nlist(1, 0, 0, FALSE, FALSE, 0), <<97>>),
     Named(Nlist(1, 0, 0, FALSE, FALSE, 0), <<98, 98>>)}

\* a trie as the exports blob of LC_DYLD_INFO(_ONLY), whole or of size 0,
\* behind any number of segments and in front of a symbol table
ExportsFile(f) ==
    \E t \in TrieMenu, c \in {"LC_DYLD_INFO", "LC_DYLD_INFO_ONLY"},
       n \in 0..Min(MaxSegs, Len(ExportSegs)), k \in 0..MaxSyms :
        \E esize \in {0, Len(t)}, syms \in [1..k -> ExportSymMenu] :
            f = [WellFormed(64, SubSeq(ExportSegs, 1, n)
                                \o <<DyldInfo(c, 0, esize), Symtab(syms)>>)
                 EXCEPT !.bytes = t]

\* the bytes of a file with data-in-code records: distinct, so that each
\* record is told from the others
DiceBytes == [i \in 1..DiceLen |-> i]

\* one or two LC_DATA_IN_CODE commands in either byte order; the slots of the
\* second start at any of the first three slots of the file and end inside
\* the file or behind it
DiceFile(f) ==
    \E m \in {"MH_MAGIC", "MH_CIGAM"}, before \in {<<>>, <<DataInCode(0, 8)>>},
       dataoff \in {0, 8, 16}, datasize \in {0, 8, 16, 24, 32} :
        f = [WellFormed(32, before \o <<DataInCode(dataoff, datasize)>>)
             EXCEPT !.magic = m, !.bytes = DiceBytes]

\* lists of ULEB deltas: ended by a zero byte, ended by the end of the blob,
\* with a delta of two bytes (128), and empty
StartsMenu == {<<4, 8, 0>>, <<4, 8>>, <<128, 1, 2>>, <<0, 4>>}

\* __PAGEZERO maps no byte of the file; __TEXT and __DATA both map its first
\* bytes.  The blob of a function-starts command is the first datasize bytes
\* of the file, fewer if the file is shorter.
FuncMenu ==
    {Segment("LC_SEGMENT_64", "__PAGEZERO", 0, 4096, 0, 0, <<>>),
     Segment("LC_SEGMENT_64", "__TEXT", 4096, 2, 0, 2, <<>>),
     Segment("LC_SEGMENT_64", "__DATA", 8192, 1, 0, 1, <<>>)}
    \cup {FunctionStarts(0, n) : n \in {0, 2, 3, 4}}

\* segments and function-starts commands in any order
FuncFile(f) ==
    \E k \in 0..MaxCmds, bs \in StartsMenu :
        \E lcs \in [1..k -> FuncMenu] : f = [WellFormed(64, lcs) EXCEPT !.bytes = bs]

\* the files of the model
InputFile(f) ==
    \/ HeaderFile(f)
    \/ LoopFile(f)
    \/ EntryFile(f)
    \/ DylibFile(f)
    \/ SegFile(f)
    \/ SymFile(f)
    \/ ExportsFile(f)
    \/ DiceFile(f)
    \/ FuncFile(f)

(***************************************************************************)
(* The state of one parse.                                                 *)
(***************************************************************************)
VARIABLES
    file,                \* the input file
    pc,                  \* where the constructor stands
    error,               \* the exception that ended the parse, or "none"
    struct_byteorder, cputype, flags, pie, ncmds, sizeofcmds,
    bits,                \* self.arch.bits
    count, offset,       \* the locals of the load-command loop
    pos,                 \* index in file.lcs of the command that starts at `offset`
    segments,            \* self.segments
    backers,             \* self.memory: the backers in the order they were added
    imported_libraries, symbols, entryoff, unixthread_pc,
    rebase_blob, binding_blob, weak_binding_blob, lazy_binding_blob,
    export_blob,         \* the blobs of LC_DYLD_INFO: None or a byte string
    lc_function_starts, lc_data_in_code,
    entry,               \* self._entry
    exports_by_name,     \* self.exports_by_name: name -> tuple
    nodes_to_do,         \* _parse_exports: the work list of (index, sym_str)
    index, sym_str,      \* _parse_exports: the node popped last
    sym_i,               \* _resolve_symbols: index of the next symbol of its loop
    ext_symbol_end,      \* _resolve_symbols: the cursor, as its offset from ext_symbol_start
    symbols_by_addr      \* self.symbols_by_addr, as pairs <<addr, index in symbols>>

header == <<struct_byteorder, cputype, flags, pie, ncmds, sizeofcmds, bits>>
loop == <<count, offset, pos>>
blobs == <<rebase_blob, binding_blob, weak_binding_blob, lazy_binding_blob, export_blob>>
image == <<segments, backers, imported_libraries, symbols, entryoff, unixthread_pc,
           blobs, lc_function_starts, lc_data_in_code>>
walk == <<nodes_to_do, index, sym_str>>
post == <<entry, exports_by_name, walk, sym_i, ext_symbol_end, symbols_by_addr>>
vars == <<file, pc, error, header, loop, image, post>>

Init ==
    /\ InputFile(file)
    /\ pc = "start"
    /\ error = "none"
    /\ struct_byteorder = "unset"
    /\ cputype = None /\ flags = None /\ pie = FALSE /\ ncmds = None /\ sizeofcmds = None
    /\ bits = None
    /\ count = None /\ offset = None /\ pos = 1
    /\ segments = <<>>
    /\ backers = <<>>
    /\ imported_libraries = <<"Self">>
    /\ symbols = <<>>
    /\ entryoff = None
    /\ unixthread_pc = None
    /\ rebase_blob = NoBlob /\ binding_blob = NoBlob /\ weak_binding_blob = NoBlob
    /\ lazy_binding_blob = NoBlob /\ export_blob = NoBlob
    /\ lc_function_starts = <<>>
    /\ lc_data_in_code = <<>>
    /\ entry = None
    /\ exports_by_name = <<>>
    /\ nodes_to_do = <<>>
    /\ index = 0 /\ sym_str = <<>>
    /\ sym_i = 1
    /\ ext_symbol_end = 0
    /\ symbols_by_addr = {}

\* an exception leaves the constructor
Raise(kind) == pc' = "error" /\ error' = kind

(***************************************************************************)
(* The mach header.                                                        *)
(***************************************************************************)
MH_MAGICS == {"MH_MAGIC_64", "MH_MAGIC"}
MH_CIGAMS == {"MH_CIGAM", "MH_CIGAM_64"}

\* _detect_byteorder: the byte order, or "raise"; `magic` is the first word
\* as the host reads it
ByteorderOf(host_is_little, magic) ==
    IF host_is_little
    THEN IF magic \in MH_MAGICS THEN "<"
         ELSE IF magic \in MH_CIGAMS THEN ">" ELSE "raise"
    ELSE IF magic \in MH_MAGICS THEN ">"
         ELSE IF magic \in MH_CIGAMS THEN "<" ELSE "raise"

DetectByteorder ==
    /\ pc = "start"
    /\ LET order == ByteorderOf(file.host_is_little, file.magic)
       IN  IF order = "raise"
           THEN Raise("CLECompatibilityError") /\ UNCHANGED struct_byteorder
           ELSE struct_byteorder' = order /\ pc' = "header" /\ UNCHANGED error
    /\ UNCHANGED <<file, cputype, flags, pie, ncmds, sizeofcmds, bits, loop, image, post>>

\* flags & 0x80
MH_TWOLEVEL(f) == (f \div 128) % 2 = 1
\* flags & 0x200000
MH_PIE(f) == (f \div 2097152) % 2 = 1

\* the exception _parse_mach_header raises for a binary without MH_TWOLEVEL
TwoLevelErrorAsCompatibility == "CLECompatibilityError"
TwoLevelError == "CLEInvalidBinaryError"

ParseMachHeader ==
    /\ pc = "header"
    /\ cputype' = file.cputype
    /\ ncmds' = file.ncmds
    /\ sizeofcmds' = file.sizeofcmds
    /\ flags' = file.flags
    /\ pie' = MH_PIE(file.flags)
    /\ IF ~MH_TWOLEVEL(file.flags)
       THEN Raise(TwoLevelError)
       ELSE pc' = "arch" /\ UNCHANGED error
    /\ UNCHANGED <<file, struct_byteorder, bits, loop, image, post>>

\* _detect_arch_ident: "none" stands for the None of an unknown cputype
arch_lookup(c) ==
    CASE c = 16777228 -> "aarch"
      [] c = 12 -> "arm"
      [] c = 7 -> "x86"
      [] c = 16777223 -> "x64"
      [] OTHER -> "none"

\* arch.bits of the architecture archinfo returns for the ident
ArchBits(ident) == IF ident \in {"aarch", "x64"} THEN 64 ELSE 32

lc_offset == (IF bits = 32 THEN 7 ELSE 8) * 4

\* lines 80-99: the architecture, then the locals of the loop
DetectArch ==
    /\ pc = "arch"
    /\ LET arch_ident == arch_lookup(cputype)
       IN  IF arch_ident = "none"
           THEN Raise("CLECompatibilityError") /\ UNCHANGED <<bits, count, offset>>
           ELSE /\ bits' = ArchBits(arch_ident)
                /\ count' = 0
                /\ offset' = (IF ArchBits(arch_ident) = 32 THEN 7 ELSE 8) * 4
                /\ pc' = "loop"
                /\ UNCHANGED error
    /\ UNCHANGED <<file, struct_byteorder, cputype, flags, pie, ncmds, sizeofcmds, pos, image, post>>

(***************************************************************************)
(* The load-command loop (lines 98-140).                                   *)
(***************************************************************************)
\* the condition of the while
LoopGuardOffByOne == count <= ncmds /\ (offset - lc_offset) < sizeofcmds
LoopGuard == count < ncmds /\ (offset - lc_offset) < sizeofcmds

\* the condition of the assertion after the loop
AssertionTriggeredBoth == count < ncmds /\ (offset - lc_offset) < sizeofcmds
AssertionTriggered == count < ncmds \/ (offset - lc_offset) < sizeofcmds

\* the (cmd, size) unpacked at `offset` lies in the file
CmdInFile == pos <= Len(file.lcs)
CurCmd == file.lcs[pos]

\* the loop is about to dispatch a command of one of the kinds `cmds`
Dispatching(cmds) ==
    /\ pc = "loop"
    /\ LoopGuard
    /\ CmdInFile
    /\ CurCmd.cmd \in cmds

\* a handler returned: the bookkeeping of the iteration
AdvanceByHeader ==
    /\ count' = count + 1
    /\ offset' = offset + CmdHeaderSize
    /\ pos' = IF CurCmd.size = 0 THEN pos ELSE pos + 1
    /\ pc' = "loop"
    /\ UNCHANGED error
Advance ==
    /\ count' = count + 1
    /\ offset' = offset + CurCmd.size
    /\ pos' = IF CurCmd.size = 0 THEN pos ELSE pos + 1
    /\ pc' = "loop"
    /\ UNCHANGED error

\* a handler raised: the iteration was counted, the offset is as it was
Abort(kind) ==
    /\ count' = count + 1
    /\ UNCHANGED <<offset, pos>>
    /\ Raise(kind)

\* the commands a branch of the dispatcher takes
KnownCmds ==
    {"LC_SEGMENT", "LC_SEGMENT_64", "LC_SYMTAB", "LC_DYLD_INFO", "LC_DYLD_INFO_ONLY",
     "LC_LOAD_DYLIB", "LC_REEXPORT_DYLIB", "LC_LOAD_WEAK_DYLIB", "LC_MAIN",
     "LC_UNIXTHREAD", "LC_FUNCTION_STARTS", "LC_DATA_IN_CODE",
     "LC_ENCRYPTION_INFO", "LC_ENCRYPTION_INFO_64"}

\* no branch of the dispatcher takes the command
SkipUnknown ==
    /\ pc = "loop" /\ LoopGuard /\ CmdInFile
    /\ CurCmd.cmd \notin KnownCmds
    /\ Advance
    /\ UNCHANGED <<file, header, image, post>>

\* the file ends before the 8 bytes at `offset`: struct.unpack raises
ReadPastEnd ==
    /\ pc = "loop" /\ LoopGuard
    /\ ~CmdInFile
    /\ Abort("struct.error")
    /\ UNCHANGED <<file, header, image, post>>

LoopExit ==
    /\ pc = "loop"
    /\ ~LoopGuard
    /\ IF AssertionTriggered
       THEN Raise("CLEInvalidBinaryError")
       ELSE pc' = "entry" /\ UNCHANGED error
    /\ UNCHANGED <<file, header, loop, image, post>>

(***************************************************************************)
(* The handlers.                                                           *)
(***************************************************************************)
\* _read: the bytes of the file in [off, off + size), fewer at its end
Read(off, size) == SubSeq(file.bytes, off + 1, Min(off + size, Len(file.bytes)))

\* read_uleb(blob, off): the value and the number of bytes consumed.  Offsets
\* into a blob count from 0: blob[p + 1] is the byte at offset p.  No blob of
\* the model ends inside a ULEB.
RECURSIVE read_uleb(_, _)
read_uleb(blob, off) ==
    IF off >= Len(blob)
    THEN [value |-> 0, consumed |-> 0]
    ELSE LET b == blob[off + 1]
         IN  IF b < 128
             THEN [value |-> b, consumed |-> 1]
             ELSE LET rest == read_uleb(blob, off + 1)
                  IN  [value |-> (b % 128) + 128 * rest.value,
                       consumed |-> 1 + rest.consumed]

\* lines 679-681: the bytes a segment is backed with
SegmentBlobUnpadded(seg) == Blob(Read(seg.offset, seg.filesize), 0)
SegmentBlob(seg) ==
    Blob(Read(seg.offset, seg.filesize),
         IF seg.filesize < seg.memsize THEN seg.memsize - seg.filesize ELSE 0)

MachOSegment(c) ==
    [offset |-> c.fileoff, vaddr |-> c.vmaddr, filesize |-> c.filesize,
     memsize |-> c.vmsize, segname |-> c.segname, sections |-> c.sects]

\* _load_segment
LoadSegment ==
    /\ Dispatching({"LC_SEGMENT", "LC_SEGMENT_64"})
    /\ LET seg == MachOSegment(CurCmd)
       IN  /\ backers' = IF seg.segname = "__PAGEZERO"
                         THEN backers
                         ELSE Append(backers, [addr |-> Abs(seg.vaddr), data |-> SegmentBlob(seg)])
           /\ segments' = Append(segments, seg)
    /\ Advance
    /\ UNCHANGED <<file, header, imported_libraries, symbols, entryoff, unixthread_pc,
                   blobs, lc_function_starts, lc_data_in_code, post>>

\* the value a string-valued attribute of a symbol has before resolution
NoName == "<unset>"

\* MachOSymbol.__init__: addr is None; the size is that of an address
MachOSymbol(nl, b) ==
    [n_type |-> nl.n_type, n_sect |-> nl.n_sect, n_value |-> nl.n_value,
     is_common |-> nl.is_common, is_import |-> nl.is_import,
     library_ordinal |-> nl.library_ordinal,
     name |-> nl.name,
     addr |-> AddrNone, size |-> b \div 8, library_name |-> NoName,
     segment_name |-> NoName, section_name |-> NoName, is_export |-> FALSE]

\* _load_symtab
LoadSymtab ==
    /\ Dispatching({"LC_SYMTAB"})
    /\ symbols' = [i \in 1..Len(CurCmd.syms) |-> MachOSymbol(CurCmd.syms[i], bits)]
    /\ Advance
    /\ UNCHANGED <<file, header, segments, backers, imported_libraries, entryoff,
                   unixthread_pc, blobs, lc_function_starts, lc_data_in_code, post>>

\* line 543
AddLibraryInFront(libs, lib_name) == <<libs[1], lib_name>> \o Tail(libs)
AddLibrary(libs, lib_name) == Append(libs, lib_name)

\* _load_dylib_info
LoadDylibInfo ==
    /\ Dispatching({"LC_LOAD_DYLIB", "LC_REEXPORT_DYLIB", "LC_LOAD_WEAK_DYLIB"})
    /\ imported_libraries' = AddLibrary(imported_libraries, CurCmd.name)
    /\ Advance
    /\ UNCHANGED <<file, header, segments, backers, symbols, entryoff, unixthread_pc,
                   blobs, lc_function_starts, lc_data_in_code, post>>

\* _load_dyld_info: a read returns a string, the empty one for size 0
LoadDyldInfo ==
    /\ Dispatching({"LC_DYLD_INFO", "LC_DYLD_INFO_ONLY"})
    /\ rebase_blob' = Str(Read(CurCmd.roff, CurCmd.rsize))
    /\ binding_blob' = Str(Read(CurCmd.boff, CurCmd.bsize))
    /\ weak_binding_blob' = Str(Read(CurCmd.wboff, CurCmd.wbsize))
    /\ lazy_binding_blob' = Str(Read(CurCmd.lboff, CurCmd.lbsize))
    /\ export_blob' = Str(Read(CurCmd.eoff, CurCmd.esize))
    /\ Advance
    /\ UNCHANGED <<file, header, segments, backers, imported_libraries, symbols, entryoff,
                   unixthread_pc, lc_function_starts, lc_data_in_code, post>>

\* lines 486-490: the vaddr of the first of `segs` with offset 0 and a
\* filesize other than 0, or None
BaseAddress(segs) ==
    IF \E i \in 1..Len(segs) : segs[i].offset = 0 /\ segs[i].filesize # 0
    THEN segs[CHOOSE i \in 1..Len(segs) :
                /\ segs[i].offset = 0 /\ segs[i].filesize # 0
                /\ \A j \in 1..(i - 1) : ~(segs[j].offset = 0 /\ segs[j].filesize # 0)].vaddr
    ELSE None

\* lines 497-507: the loop from i with the running address: the addresses
\* appended, and the IndexError of blob[i] behind the end of the blob
RECURSIVE WalkStarts(_, _, _, _)
WalkStarts(blob, i, end, address) ==
    IF i >= end
    THEN [starts |-> <<>>, error |-> "none"]
    ELSE IF i >= Len(blob)
    THEN [starts |-> <<>>, error |-> "IndexError"]
    ELSE IF blob[i + 1] = 0
    THEN [starts |-> <<>>, error |-> "none"]
    ELSE LET uleb == read_uleb(blob, i)
             rest == WalkStarts(blob, i + uleb.consumed, end, address + uleb.value)
         IN  [starts |-> <<address + uleb.value>> \o rest.starts, error |-> rest.error]

\* _load_lc_function_starts: the segments it searches are those of the
\* commands dispatched before it
LoadLcFunctionStarts ==
    /\ Dispatching({"LC_FUNCTION_STARTS"})
    /\ LET blob == Read(CurCmd.dataoff, CurCmd.datasize)
           address == BaseAddress(segments)
           r == WalkStarts(blob, 0, CurCmd.datasize, address)
       IN  IF address = None
           THEN lc_function_starts' = <<>> /\ Abort("CLEInvalidBinaryError")
           ELSE /\ lc_function_starts' = r.starts
                /\ IF r.error = "none" THEN Advance ELSE Abort(r.error)
    /\ UNCHANGED <<file, header, segments, backers, imported_libraries, symbols, entryoff,
                   unixthread_pc, blobs, lc_data_in_code, post>>

\* struct.unpack of one unsigned field in the byte order `order`
RECURSIVE UnpackUInt(_, _)
UnpackUInt(bs, order) ==
    IF bs = <<>> THEN 0
    ELSE IF order = "<"
    THEN Head(bs) + 256 * UnpackUInt(Tail(bs), order)
    ELSE bs[Len(bs)] + 256 * UnpackUInt(SubSeq(bs, 1, Len(bs) - 1), order)

\* struct.unpack(byteorder + "IHH", bs) of 8 bytes
UnpackIHH(bs, order) ==
    <<UnpackUInt(SubSeq(bs, 1, 4), order), UnpackUInt(SubSeq(bs, 5, 6), order),
      UnpackUInt(SubSeq(bs, 7, 8), order)>>

\* lines 463-465: the loop over range(i, datasize, 8): the records appended,
\* and the struct.error of a read that returns fewer than 8 bytes
RECURSIVE DataInCodeFrom(_, _)
DataInCodeFrom(i, datasize) ==
    IF i >= datasize
    THEN [records |-> <<>>, error |-> "none"]
    ELSE IF Len(Read(i, 8)) < 8
    THEN [records |-> <<>>, error |-> "struct.error"]
    ELSE LET rest == DataInCodeFrom(i + 8, datasize)
         IN  [records |-> <<UnpackIHH(Read(i, 8), struct_byteorder)>> \o rest.records,
              error |-> rest.error]

\* _load_lc_data_in_code
LoadLcDataInCode ==
    /\ Dispatching({"LC_DATA_IN_CODE"})
    /\ LET r == DataInCodeFrom(CurCmd.dataoff, CurCmd.datasize)
       IN  /\ lc_data_in_code' = lc_data_in_code \o r.records
           /\ IF r.error = "none" THEN Advance ELSE Abort(r.error)
    /\ UNCHANGED <<file, header, segments, backers, imported_libraries, symbols, entryoff,
                   unixthread_pc, blobs, lc_function_starts, post>>

\* lines 511 and 519
EntryAlreadySetTruthy == Truthy(entryoff) \/ Truthy(unixthread_pc)
EntryAlreadySet == entryoff # None \/ unixthread_pc # None

\* _load_lc_main
LoadLcMain ==
    /\ Dispatching({"LC_MAIN"})
    /\ IF EntryAlreadySet
       THEN Abort("CLEInvalidBinaryError") /\ UNCHANGED entryoff
       ELSE entryoff' = CurCmd.entryoff /\ Advance
    /\ UNCHANGED <<file, header, segments, backers, imported_libraries, symbols,
                   unixthread_pc, blobs, lc_function_starts, lc_data_in_code, post>>

\* lines 528-534: the flavors whose thread state is unpacked
KnownFlavor(flavor, b) ==
    \/ flavor = 1 /\ b # 64
    \/ (flavor = 1 /\ b = 64) \/ flavor = 6

\* _load_lc_unixthread
LoadLcUnixthread ==
    /\ Dispatching({"LC_UNIXTHREAD"})
    /\ IF EntryAlreadySet
       THEN Abort("CLEInvalidBinaryError") /\ UNCHANGED unixthread_pc
       ELSE IF KnownFlavor(CurCmd.flavor, bits)
            THEN unixthread_pc' = CurCmd.pc /\ Advance
            ELSE Abort("CLECompatibilityError") /\ UNCHANGED unixthread_pc
    /\ UNCHANGED <<file, header, segments, backers, imported_libraries, symbols,
                   entryoff, blobs, lc_function_starts, lc_data_in_code, post>>

\* _assert_unencrypted
AssertUnencrypted ==
    /\ Dispatching({"LC_ENCRYPTION_INFO", "LC_ENCRYPTION_INFO_64"})
    /\ IF CurCmd.cryptid > 0
       THEN Abort("CLEInvalidBinaryError")
       ELSE Advance
    /\ UNCHANGED <<file, header, image, post>>

(***************************************************************************)
(* The post-pass: _resolve_entry.                                          *)
(***************************************************************************)
\* find_segment_by_name: the index of the first segment of that name, 0 for None
find_segment_by_name(name) ==
    IF \E i \in 1..Len(segments) : segments[i].segname = name
    THEN CHOOSE i \in 1..Len(segments) :
            /\ segments[i].segname = name
            /\ \A j \in 1..(i - 1) : segments[j].segname # name
    ELSE 0

\* _resolve_entry; None.vaddr raises AttributeError
ResolveEntry ==
    /\ pc = "entry"
    /\ IF Truthy(entryoff)
       THEN LET text == find_segment_by_name("__TEXT")
            IN  IF text = 0
                THEN Raise("AttributeError") /\ UNCHANGED entry
                ELSE /\ entry' = segments[text].vaddr + entryoff
                     /\ pc' = "exports" /\ UNCHANGED error
       ELSE IF Truthy(unixthread_pc)
            THEN entry' = unixthread_pc /\ pc' = "exports" /\ UNCHANGED error
            ELSE entry' = 0 /\ pc' = "exports" /\ UNCHANGED error
    /\ UNCHANGED <<file, header, loop, image, exports_by_name, walk, sym_i,
                   ext_symbol_end, symbols_by_addr>>

(***************************************************************************)
(* The post-pass: _parse_exports, the first call of _resolve_symbols.      *)
(* Offsets into a blob count from 0; blob[p + 1] is the byte at offset p.  *)
(***************************************************************************)
\* the loop `while char != '\x00'` from offset p: the string, the offset
\* behind its NUL, and whether the loop ends.  At the end of the blob read(1)
\* returns "", which is not NUL and adds nothing: the loop never ends.
RECURSIVE ReadString(_, _)
ReadString(blob, p) ==
    IF p >= Len(blob)
    THEN [str |-> <<>>, next |-> p, ends |-> FALSE]
    ELSE IF blob[p + 1] = 0
    THEN [str |-> <<>>, next |-> p + 1, ends |-> TRUE]
    ELSE LET rest == ReadString(blob, p + 1)
         IN  [str |-> <<blob[p + 1]>> \o rest.str, next |-> rest.next, ends |-> rest.ends]

FLAGS_REEXPORT == 8
FLAGS_STUB_AND_RESOLVER == 16
\* flags & bit, for a bit that is a power of two
HasFlag(word, bit) == (word \div bit) % 2 = 1

\* lines 386-417: the payload of a terminal that starts at offset p with its
\* flags: the numbers and the string decoded, and the offset behind them
TerminalInfo(blob, p) ==
    LET fl == read_uleb(blob, p)
        p2 == p + fl.consumed
        first == read_uleb(blob, p2)
        p3 == p2 + first.consumed
    IN  IF HasFlag(fl.value, FLAGS_REEXPORT)
        THEN LET name == ReadString(blob, p3)
             IN  [kind |-> "REEXPORT", flags |-> fl.value, a |-> first.value, b |-> 0,
                  str |-> name.str, next |-> name.next, ends |-> name.ends]
        ELSE IF HasFlag(fl.value, FLAGS_STUB_AND_RESOLVER)
        THEN LET second == read_uleb(blob, p3)
             IN  [kind |-> "STUB_AND_RESOLVER", flags |-> fl.value, a |-> first.value,
                  b |-> second.value, str |-> <<>>, next |-> p3 + second.consumed,
                  ends |-> TRUE]
        ELSE [kind |-> "REGULAR", flags |-> fl.value, a |-> first.value, b |-> 0,
              str |-> <<>>, next |-> p3, ends |-> TRUE]

\* lines 420-430: the n children that start at offset p, as the loop appends
\* them, until an edge string does not end
RECURSIVE ReadChildren(_, _, _, _)
ReadChildren(blob, p, n, prefix) ==
    IF n = 0
    THEN [children |-> <<>>, ends |-> TRUE]
    ELSE LET edge == ReadString(blob, p)
             next_node == read_uleb(blob, edge.next)
             rest == ReadChildren(blob, edge.next + next_node.consumed, n - 1, prefix)
         IN  IF ~edge.ends
             THEN [children |-> <<>>, ends |-> FALSE]
             ELSE [children |-> <<<<next_node.value, prefix \o edge.str>>>> \o rest.children,
                   ends |-> rest.ends]

\* the bytes of the node <<index, sym_str>> as the loop body reads them, and
\* the read at which it stops: "info" and "count" are the reads of one byte
\* that find the blob at its end (struct.error), "payload" and "children" the
\* strings that do not end
DecodeNode(blob, node) ==
    LET at == node[1]
        info == IF at >= Len(blob) THEN [value |-> 0, consumed |-> 0]
                ELSE IF blob[at + 1] > 127 THEN read_uleb(blob, at)
                ELSE [value |-> blob[at + 1], consumed |-> 1]
        p1 == at + info.consumed
        t == TerminalInfo(blob, p1)
        p == IF info.value > 0 THEN t.next ELSE p1
        cs == ReadChildren(blob, p + 1, blob[p + 1], node[2])
    IN  IF at >= Len(blob)
        THEN [stop |-> "info", terminal |-> FALSE, t |-> t, children |-> <<>>]
        ELSE IF info.value > 0 /\ ~t.ends
        THEN [stop |-> "payload", terminal |-> TRUE, t |-> t, children |-> <<>>]
        ELSE IF p >= Len(blob)
        THEN [stop |-> "count", terminal |-> info.value > 0, t |-> t, children |-> <<>>]
        ELSE [stop |-> IF cs.ends THEN "none" ELSE "children",
              terminal |-> info.value > 0, t |-> t, children |-> cs.children]
\* exports_by_name[name] = value
Put(exports, name, value) ==
    [n \in DOMAIN exports \cup {name} |-> IF n = name THEN value ELSE exports[n]]

\* lines 397, 410 and 417: the tuple stored for a terminal; the bias of a
\* REGULAR one is self.segments[1].vaddr
ExportTuple(t, segs) ==
    IF t.kind = "REEXPORT" THEN <<t.flags, t.a, t.str>>
    ELSE IF t.kind = "STUB_AND_RESOLVER" THEN <<t.flags, t.a, t.b>>
    ELSE <<t.flags, t.a + segs[2].vaddr>>

\* one iteration of `while True` over the popped node: exports_by_name and
\* the children appended, and how the iteration leaves: "none" for the next
\* iteration, "IndexError" and "struct.error" for the exception raised,
\* "spin" for an inner loop that never ends
Visit(blob, node, segs, exports) ==
    LET d == DecodeNode(blob, node)
        stored == IF d.terminal THEN Put(exports, node[2], ExportTuple(d.t, segs))
                  ELSE exports
    IN  IF d.stop = "info"
        THEN [exports |-> exports, children |-> <<>>, leaves |-> "struct.error"]
        ELSE IF d.stop = "payload"
        THEN [exports |-> exports, children |-> <<>>, leaves |-> "spin"]
        ELSE IF d.terminal /\ d.t.kind = "REGULAR" /\ Len(segs) < 2
        THEN [exports |-> exports, children |-> <<>>, leaves |-> "IndexError"]
        ELSE IF d.stop = "count"
        THEN [exports |-> stored, children |-> <<>>, leaves |-> "struct.error"]
        ELSE [exports |-> stored, children |-> d.children,
              leaves |-> IF d.stop = "children" THEN "spin" ELSE "none"]

\* lines 351-359: no walk for None, else the work list [(0, "")]
ParseExports ==
    /\ pc = "exports"
    /\ IF export_blob.is_none
       THEN pc' = "symbols" /\ UNCHANGED walk
       ELSE /\ pc' = "trie"
            /\ index' = 0 /\ sym_str' = <<>>
            /\ nodes_to_do' = << <<0, <<>>>> >>
    /\ UNCHANGED <<file, error, header, loop, image, entry, exports_by_name, sym_i,
                   ext_symbol_end, symbols_by_addr>>

\* line 372: the pop of a node
PopNode ==
    /\ pc = "trie"
    /\ nodes_to_do # <<>>
    /\ index' = nodes_to_do[Len(nodes_to_do)][1]
    /\ sym_str' = nodes_to_do[Len(nodes_to_do)][2]
    /\ nodes_to_do' = SubSeq(nodes_to_do, 1, Len(nodes_to_do) - 1)
    /\ pc' = "node"
    /\ UNCHANGED <<file, error, header, loop, image, entry, exports_by_name, sym_i,
                   ext_symbol_end, symbols_by_addr>>

\* lines 373-430: the popped node is processed.  `except IndexError` takes
\* every IndexError of the body for the end of the walk; a struct.error leaves
\* the constructor.
VisitNode ==
    /\ pc = "node"
    /\ LET v == Visit(export_blob.bytes, <<index, sym_str>>, segments, exports_by_name)
       IN  /\ exports_by_name' = v.exports
           /\ nodes_to_do' = nodes_to_do \o v.children
           /\ IF v.leaves = "struct.error" THEN Raise("struct.error")
              ELSE IF v.leaves = "IndexError" THEN pc' = "symbols" /\ UNCHANGED error
              ELSE IF v.leaves = "spin" THEN pc' = "spin" /\ UNCHANGED error
              ELSE pc' = "trie" /\ UNCHANGED error
    /\ UNCHANGED <<file, header, loop, image, entry, index, sym_str, sym_i, ext_symbol_end,
                   symbols_by_addr>>

\* lines 372 and 432-434: pop on the empty list raises IndexError, the end
ExportsDone ==
    /\ pc = "trie"
    /\ nodes_to_do = <<>>
    /\ pc' = "symbols"
    /\ UNCHANGED <<file, error, header, loop, image, post>>

(***************************************************************************)
(* The post-pass: _resolve_symbols.                                        *)
(***************************************************************************)
\* line 287
MarkExport(sym) == [sym EXCEPT !.is_export = sym.name \in DOMAIN exports_by_name]

\* lines 288-291: `continue`
SkipStabAdvancing(sym, cursor) == [sym |-> sym, cursor |-> cursor + sym.size, error |-> "none"]
SkipStab(sym, cursor) == [sym |-> sym, cursor |-> cursor, error |-> "none"]

\* n_type & 0xe0
is_stab(sym) == (sym.n_type \div 32) % 8 # 0
\* n_type & 0x0e
sym_type(sym) == ((sym.n_type \div 2) % 8) * 2
SYMBOL_TYPE_SECT == 14

\* the None that stands for NO_SECT at index 0 of section_tab
NoSection == Section(NoName, NoName)

RECURSIVE SectionsOf(_)
SectionsOf(segs) ==
    IF segs = <<>> THEN <<>> ELSE Head(segs).sections \o SectionsOf(Tail(segs))

\* lines 276-278
section_tab == <<NoSection>> \o SectionsOf(segments)

\* line 316: imported_libraries[library_ordinal]
LibraryNameOneBased(libs, ordinal) == libs[IF ordinal = 0 THEN Len(libs) ELSE ordinal]
LibraryName(libs, ordinal) == libs[ordinal + 1]

\* lines 319-321: the symbol with its address, and the cursor after it
AssignExternalSkipImports(sym, cursor) ==
    IF sym.addr = AddrNone /\ ~sym.is_import
    THEN [sym |-> [sym EXCEPT !.addr = Ext(cursor)], cursor |-> cursor + sym.size]
    ELSE [sym |-> sym, cursor |-> cursor]
AssignExternal(sym, cursor) ==
    IF sym.addr = AddrNone
    THEN [sym |-> [sym EXCEPT !.addr = Ext(cursor)], cursor |-> cursor + sym.size]
    ELSE [sym |-> sym, cursor |-> cursor]

\* lines 301-303
WithCommonSize(sym) == IF sym.is_common THEN [sym EXCEPT !.size = sym.n_value] ELSE sym

\* one iteration of the loop of lines 285-322 over `sym`: the symbol and the
\* cursor after it, or the exception it raises
ResolveOne(sym, tab, libs, cursor) ==
    LET marked == MarkExport(sym)
        sized == WithCommonSize(marked)
    IN  IF is_stab(sym)
        THEN SkipStab(marked, cursor)
        ELSE IF sym_type(sym) = SYMBOL_TYPE_SECT
        THEN IF sym.n_sect >= Len(tab)
             THEN [sym |-> sized, cursor |-> cursor, error |-> "IndexError"]
             ELSE LET sec == tab[sym.n_sect + 1]
                      named == IF sec # NoSection
                               THEN [sized EXCEPT !.segment_name = sec.segname,
                                                  !.section_name = sec.sectname]
                               ELSE sized
                      placed == AssignExternal([named EXCEPT !.addr = Abs(sym.n_value)], cursor)
                  IN  [sym |-> placed.sym, cursor |-> placed.cursor, error |-> "none"]
        ELSE IF sym.is_import
        THEN IF sym.library_ordinal >= Len(libs)
             THEN [sym |-> sized, cursor |-> cursor, error |-> "IndexError"]
             ELSE LET placed == AssignExternal(
                                  [sized EXCEPT !.library_name = LibraryName(libs, sym.library_ordinal)],
                                  cursor)
                  IN  [sym |-> placed.sym, cursor |-> placed.cursor, error |-> "none"]
        ELSE LET placed == AssignExternal(sized, cursor)
             IN  [sym |-> placed.sym, cursor |-> placed.cursor, error |-> "none"]

\* the loop of lines 285-322, one symbol a step
ResolveSymbol ==
    /\ pc = "symbols"
    /\ sym_i <= Len(symbols)
    /\ LET r == ResolveOne(symbols[sym_i], section_tab, imported_libraries, ext_symbol_end)
       IN  IF r.error # "none"
           THEN Raise(r.error) /\ UNCHANGED <<symbols, sym_i, ext_symbol_end>>
           ELSE /\ symbols' = [symbols EXCEPT ![sym_i] = r.sym]
                /\ ext_symbol_end' = r.cursor
                /\ sym_i' = sym_i + 1
                /\ UNCHANGED <<pc, error>>
    /\ UNCHANGED <<file, header, loop, segments, backers, imported_libraries, entryoff,
                   unixthread_pc, blobs, lc_function_starts, lc_data_in_code, entry,
                   exports_by_name, walk, symbols_by_addr>>

\* lines 337-343: the last non-stab symbol of each address
SymbolsByAddr(syms) ==
    {<<syms[i].addr, i>> : i \in
        {j \in 1..Len(syms) :
            /\ ~is_stab(syms[j])
            /\ syms[j].addr # AddrNone
            /\ \A k \in (j + 1)..Len(syms) : is_stab(syms[k]) \/ syms[k].addr # syms[j].addr}}

\* lines 324-343: the backer of the external area, the binding (which leaves
\* the fields of this model alone), the index by address
FinishResolveSymbols ==
    /\ pc = "symbols"
    /\ sym_i > Len(symbols)
    /\ backers' = Append(backers, [addr |-> Ext(0), data |-> Blob(<<>>, ext_symbol_end)])
    /\ symbols_by_addr' = SymbolsByAddr(symbols)
    /\ pc' = "mod_funcs"
    /\ UNCHANGED <<file, error, header, loop, segments, imported_libraries, symbols, entryoff,
                   unixthread_pc, blobs, lc_function_starts, lc_data_in_code, entry,
                   exports_by_name, walk, sym_i, ext_symbol_end>>

\* _parse_mod_funcs: no section of the model is of type 0x9 or 0xa
ParseModFuncs ==
    /\ pc = "mod_funcs"
    /\ pc' = "done"
    /\ UNCHANGED <<file, error, header, loop, image, post>>

Next ==
    \/ DetectByteorder
    \/ ParseMachHeader
    \/ DetectArch
    \/ LoadSegment
    \/ LoadSymtab
    \/ LoadDylibInfo
    \/ LoadDyldInfo
    \/ LoadLcFunctionStarts
    \/ LoadLcDataInCode
    \/ LoadLcMain
    \/ LoadLcUnixthread
    \/ AssertUnencrypted
    \/ SkipUnknown
    \/ ReadPastEnd
    \/ LoopExit
    \/ ResolveEntry
    \/ ParseExports
    \/ PopNode
    \/ VisitNode
    \/ ExportsDone
    \/ ResolveSymbol
    \/ FinishResolveSymbols
    \/ ParseModFuncs

Spec == Init /\ [][Next]_vars

\* the constructor is one sequential thread that nothing suspends: as long as
\* it has a next statement, it executes it
FairSpec == Spec /\ WF_vars(Next)

(***************************************************************************)
(* Properties.                                                             *)
(***************************************************************************)
EntryCmds == {"LC_MAIN", "LC_UNIXTHREAD"}
DylibCmds == {"LC_LOAD_DYLIB", "LC_REEXPORT_DYLIB", "LC_LOAD_WEAK_DYLIB"}
SegmentCmds == {"LC_SEGMENT", "LC_SEGMENT_64"}

\* the loop is about to dispatch the command at `offset`
AboutToDispatch ==
    /\ pc = "loop"
    /\ count < ncmds /\ (offset - lc_offset) < sizeofcmds
    /\ pos <= Len(file.lcs)

\* _resolve_symbols has returned
SymbolsResolved == pc \in {"mod_funcs", "done"}

\* C1: at most one entry-point command is accepted.  An LC_MAIN or
\* LC_UNIXTHREAD dispatched while entryoff or unixthread_pc is set (to any
\* value, 0 included) ends the parse with CLEInvalidBinaryError and sets
\* neither; so entryoff and unixthread_pc are never both set.
C1_OneEntryPoint ==
    /\ [](~(entryoff # None /\ unixthread_pc # None))
    /\ [][(/\ AboutToDispatch
           /\ file.lcs[pos].cmd \in EntryCmds
           /\ (entryoff # None \/ unixthread_pc # None))
          => (/\ pc' = "error"
              /\ error' = "CLEInvalidBinaryError"
              /\ entryoff' = entryoff
              /\ unixthread_pc' = unixthread_pc)]_vars

\* an LC_UNIXTHREAD was rejected after an LC_MAIN had set entryoff to 0
C1_Witness ==
    /\ pc = "error"
    /\ error = "CLEInvalidBinaryError"
    /\ entryoff = 0
    /\ unixthread_pc = None
    /\ pos <= Len(file.lcs)
    /\ file.lcs[pos].cmd = "LC_UNIXTHREAD"

\* C2: once _resolve_symbols has returned, every symbol that is not a stab
\* symbol has an address, whatever its type, section, import status or size.
C2_NonStabHasAddr ==
    SymbolsResolved =>
        \A i \in 1..Len(symbols) :
            (symbols[i].n_type \div 32) % 8 = 0 => symbols[i].addr # AddrNone

\* a parse ended with an imported symbol and a sectioned symbol resolved
C2_Witness ==
    /\ pc = "done"
    /\ \E i, j \in 1..Len(symbols) :
        /\ symbols[i].n_type = 1 /\ symbols[i].is_import /\ symbols[i].addr = Ext(0)
        /\ symbols[j].n_type = 15 /\ symbols[j].addr = Abs(symbols[j].n_value)

\* the symbols that were given an address of the external area, in the
\* order of their assignment
Synthesized ==
    {i \in 1..Len(symbols) : pc \in {"symbols", "mod_funcs", "done"} /\ symbols[i].addr.base = "ext"}

\* C3: of two symbols with a synthesized address, the later one lies at or
\* after the end of the earlier one, and both addresses lie in the external
\* area inside the address space of the image.
C3_ExternalAddressesOrdered ==
    \A i, j \in Synthesized :
        i < j =>
            /\ symbols[j].addr.off >= symbols[i].addr.off + symbols[i].size
            /\ InAddressSpace(bits, symbols[i].addr.off)
            /\ InAddressSpace(bits, symbols[j].addr.off)

\* C4: no two symbols with a synthesized address have the same address.
C4_ExternalAddressesUnique ==
    \A i, j \in Synthesized : i # j => symbols[i].addr # symbols[j].addr

\* the byte of the file at offset `off`, -1 beyond its end
FileByte(off) == IF off < Len(file.bytes) THEN file.bytes[off + 1] ELSE -1

\* C5: a segment command that is not __PAGEZERO adds exactly one backer, at
\* vmaddr, of length vmsize, whose first filesize bytes are the bytes of the
\* file at fileoff and whose other bytes are zero; a __PAGEZERO command adds
\* no backer; either way the segment is appended to the segment list.
C5_SegmentBacker ==
    [][(AboutToDispatch /\ file.lcs[pos].cmd \in SegmentCmds) =>
        LET c == file.lcs[pos]
        IN  /\ Len(segments') = Len(segments) + 1
            /\ segments'[Len(segments')].segname = c.segname
            /\ IF c.segname = "__PAGEZERO"
               THEN backers' = backers
               ELSE /\ Len(backers') = Len(backers) + 1
                    /\ SubSeq(backers', 1, Len(backers)) = backers
                    /\ LET b == backers'[Len(backers')]
                       IN  /\ b.addr = Abs(c.vmaddr)
                           /\ BlobLen(b.data) = c.vmsize
                           /\ \A i \in 1..c.vmsize :
                                BlobAt(b.data, i) =
                                    IF i <= c.filesize THEN FileByte(c.fileoff + i - 1) ELSE 0]_vars

\* the names of the dylib commands among `cs`, in their order
RECURSIVE DylibNames(_)
DylibNames(cs) ==
    IF cs = <<>> THEN <<>>
    ELSE (IF Head(cs).cmd \in DylibCmds THEN <<Head(cs).name>> ELSE <<>>) \o DylibNames(Tail(cs))

\* every command of the file has a size above 0, so each is dispatched once
AllSized == \A k \in 1..Len(file.lcs) : file.lcs[k].size > 0

\* C6: in a parsed image, every imported symbol (not a stab, not sectioned)
\* has a library ordinal inside the table of all dylib commands of the file,
\* those after LC_SYMTAB included, and carries the name the table holds there.
C6_ImportLibrary ==
    (pc = "done" /\ AllSized /\ file.ncmds = Len(file.lcs)) =>
        LET table == <<"Self">> \o DylibNames(file.lcs)
        IN  /\ imported_libraries = table
            /\ \A i \in 1..Len(symbols) :
                (/\ (symbols[i].n_type \div 32) % 8 = 0
                 /\ ((symbols[i].n_type \div 2) % 8) * 2 # 14
                 /\ symbols[i].is_import)
                => /\ 0 <= symbols[i].library_ordinal
                   /\ symbols[i].library_ordinal < Len(table)
                   /\ symbols[i].library_name = table[symbols[i].library_ordinal + 1]

\* an import of ordinal 2 was given the name of a dylib command that follows
\* LC_SYMTAB
C6_Witness ==
    /\ pc = "done"
    /\ Len(file.lcs) = 3
    /\ file.lcs[2].cmd = "LC_SYMTAB"
    /\ file.lcs[3].cmd = "LC_LOAD_WEAK_DYLIB"
    /\ \E i \in 1..Len(symbols) :
        /\ symbols[i].is_import
        /\ symbols[i].library_ordinal = 2
        /\ symbols[i].library_name = "libB"

InPostPass ==
    pc \in {"entry", "exports", "trie", "node", "spin", "symbols", "mod_funcs", "done"}

\* C8: the loop runs at most ncmds iterations: each iteration, also of a
\* command of size 0, adds one to count, count never exceeds ncmds, and the
\* loop is never stuck.  A dispatched command starts inside the
\* sizeofcmds bytes of the region.  The post-pass is entered only with
\* count >= ncmds and span >= sizeofcmds; a loop exit without them raises
\* CLEInvalidBinaryError.
C8_LoopBounds ==
    /\ [](pc = "loop" => (count <= ncmds /\ ENABLED Next))
    /\ [](InPostPass => (count >= ncmds /\ (offset - lc_offset) >= sizeofcmds))
    /\ [][pc = "loop" =>
            IF count' # count
            THEN /\ count' = count + 1
                 /\ 0 <= offset - lc_offset
                 /\ offset - lc_offset < sizeofcmds
                 /\ offset' >= offset
            ELSE /\ offset' = offset
                 /\ IF count >= ncmds /\ (offset - lc_offset) >= sizeofcmds
                    THEN pc' = "entry"
                    ELSE pc' = "error" /\ error' = "CLEInvalidBinaryError"]_vars

\* three iterations over a command of size 0 ended in the assertion
C8_Witness ==
    /\ pc = "error"
    /\ error = "CLEInvalidBinaryError"
    /\ count = 3
    /\ ncmds = 3
    /\ offset = lc_offset
    /\ file.lcs[1].size = 0

\* the header has one of the four magics and lacks MH_TWOLEVEL
NotTwoLevel ==
    /\ file.magic \in {"MH_MAGIC", "MH_MAGIC_64", "MH_CIGAM", "MH_CIGAM_64"}
    /\ (file.flags \div 128) % 2 = 0

\* the parse is past _parse_mach_header
HeaderParsed == pc \notin {"start", "header"}

\* no load command was dispatched
NothingDispatched == count = None /\ offset = None /\ segments = <<>> /\ symbols = <<>>

\* C9 as claimed: a header with a recognized magic and without MH_TWOLEVEL
\* is rejected before any load command is dispatched, with the error kind
\* Compatibility.
C9_RejectedAsCompatibility ==
    (NotTwoLevel /\ HeaderParsed) =>
        (pc = "error" /\ error = "CLECompatibilityError" /\ NothingDispatched)

\* C9 as amended: a header with a recognized magic and without MH_TWOLEVEL
\* is rejected before any load command is dispatched, with the error kind
\* InvalidBinary.
C9_RejectedAsInvalidBinary ==
    (NotTwoLevel /\ HeaderParsed) =>
        (pc = "error" /\ error = "CLEInvalidBinaryError" /\ NothingDispatched)

\* a header without MH_TWOLEVEL, of a cputype the loader does not know, in
\* front of a load command, was rejected
C9_Witness ==
    /\ NotTwoLevel
    /\ file.cputype = 18
    /\ Len(file.lcs) = 1
    /\ pc = "error"
    /\ error = "CLEInvalidBinaryError"

\* C10: after the parse, entry is the vaddr of __TEXT plus entryoff if an
\* LC_MAIN set entryoff (to any value, 0 included); else the pc of
\* LC_UNIXTHREAD if one set it; else 0.
C10_EntryAddress ==
    (pc \in {"symbols", "mod_funcs", "done"}) =>
        IF entryoff # None
        THEN \A t \in 1..Len(segments) :
                (segments[t].segname = "__TEXT"
                 /\ \A u \in 1..(t - 1) : segments[u].segname # "__TEXT")
                => entry = segments[t].vaddr + entryoff
        ELSE IF unixthread_pc # None
             THEN entry = unixthread_pc
             ELSE entry = 0

\* the exports blob is absent (no LC_DYLD_INFO) or has length 0
EmptyExports == export_blob.is_none \/ export_blob.bytes = <<>>

\* _resolve_entry has returned: what is raised from here on is raised by
\* _resolve_symbols
EntryResolved == entry # None

\* C11: with an absent or empty exports blob _parse_exports returns normally:
\* it raises nothing, it does not hang, and exports_by_name stays empty.
C11_EmptyExportsSkipped ==
    (EntryResolved /\ EmptyExports) =>
        /\ error # "struct.error"
        /\ pc # "spin"
        /\ DOMAIN exports_by_name = {}

\* C12: dispatching a command whose cmd is of no known type is no error and
\* leaves every field of the image as it was; only count grows by 1 and
\* offset by the size the command declares.
C12_UnknownCommandFrame ==
    [][(AboutToDispatch /\ CurCmd.cmd \notin KnownCmds) =>
            /\ UNCHANGED <<segments, backers, symbols, imported_libraries, entryoff,
                           unixthread_pc, blobs, lc_function_starts, lc_data_in_code,
                           exports_by_name, header>>
            /\ count' = count + 1
            /\ offset' = offset + CurCmd.size
            /\ pc' = "loop"
            /\ error' = "none"]_vars

\* a dylib command, then an unknown command were dispatched
C12_Witness ==
    /\ pc = "loop"
    /\ count = 2 /\ pos = 3
    /\ file.lcs[1].cmd \in DylibCmds
    /\ file.lcs[2].cmd \notin KnownCmds
    /\ Len(imported_libraries) = 2
    /\ offset = lc_offset + file.lcs[1].size + file.lcs[2].size

\* the walk of _parse_exports is under way: in its `while True`, or in one
\* of its string loops
InWalk == pc \in {"trie", "node", "spin"}

\* C13: the walk of the exports trie terminates for every blob: once it has
\* started from [(0, "")], the work list becomes empty after finitely many
\* visits and _parse_exports is left, also for a blob whose child offsets
\* point back at an ancestor or at the node itself.
C13_WalkTerminates == InWalk ~> ~InWalk

\* the names of the nodes with info_len > 0 among the nodes `todo` and the
\* nodes below them, each name the edge strings from the root in a row;
\* `fuel` bounds the number of nodes looked at
RECURSIVE TrieNames(_, _, _)
TrieNames(blob, todo, fuel) ==
    IF todo = <<>> \/ fuel = 0
    THEN {}
    ELSE LET d == DecodeNode(blob, Head(todo))
         IN  (IF d.terminal THEN {Head(todo)[2]} ELSE {})
             \cup TrieNames(blob, Tail(todo) \o d.children, fuel - 1)

\* _parse_exports has returned
ExportsParsed == pc \in {"symbols", "mod_funcs", "done"}

\* C14: after the walk of a well-formed acyclic trie exports_by_name holds
\* one entry for each node with info_len > 0 that is reachable from node 0,
\* under the edge strings of its path in a row, whatever the number of
\* segments and whatever the kinds of the terminals.
C14_ExportsOfTrie ==
    (ExportsParsed /\ ~export_blob.is_none /\ export_blob.bytes \in WellFormedTries) =>
        DOMAIN exports_by_name
            = TrieNames(export_blob.bytes, << <<0, <<>>>> >>, Len(export_blob.bytes))

\* the records of the datasize / 8 slots of 8 bytes from file offset dataoff
\* on, in file order
SlotRecords(dataoff, datasize) ==
    [k \in 1..(datasize \div 8) |->
        UnpackIHH(SubSeq(file.bytes, dataoff + 8 * (k - 1) + 1, dataoff + 8 * k),
                  struct_byteorder)]

\* C15: an LC_DATA_IN_CODE command (dataoff, datasize) whose slots lie in
\* the file appends to data_in_code the record of each 8-byte slot at
\* dataoff, dataoff + 8, ... below dataoff + datasize: datasize / 8 records
\* in file order, for every dataoff.
C15_DataInCodeRecords ==
    [][(Dispatching({"LC_DATA_IN_CODE"})
        /\ CurCmd.dataoff + CurCmd.datasize <= Len(file.bytes)) =>
            /\ lc_data_in_code'
                 = lc_data_in_code \o SlotRecords(CurCmd.dataoff, CurCmd.datasize)
            /\ error' = "none"]_vars

\* the segments of the image: those of all segment commands of the file, in
\* file order
RECURSIVE ImageSegments(_)
ImageSegments(lcs) ==
    IF lcs = <<>> THEN <<>>
    ELSE (IF Head(lcs).cmd \in SegmentCmds THEN <<MachOSegment(Head(lcs))>> ELSE <<>>)
         \o ImageSegments(Tail(lcs))

\* the ULEB deltas of a blob from offset i up to the first zero byte or the
\* end of the blob
RECURSIVE Deltas(_, _)
Deltas(blob, i) ==
    IF i >= Len(blob) THEN <<>>
    ELSE IF blob[i + 1] = 0 THEN <<>>
    ELSE <<read_uleb(blob, i).value>> \o Deltas(blob, i + read_uleb(blob, i).consumed)

\* base plus the sum of the first k deltas, for each k
RECURSIVE RunningSums(_, _)
RunningSums(base, ds) ==
    IF ds = <<>> THEN <<>>
    ELSE <<base + Head(ds)>> \o RunningSums(base + Head(ds), Tail(ds))

\* C16: LC_FUNCTION_STARTS takes for base the vaddr of the first segment of
\* the image with fileoff = 0 and filesize # 0, wherever the command of that
\* segment stands; it emits base plus the running sums of the ULEB deltas up
\* to the first zero byte or the end of the blob, and raises - the
\* invalid-binary error - only if the image has no such segment.
C16_FunctionStarts ==
    [][Dispatching({"LC_FUNCTION_STARTS"}) =>
            LET base == BaseAddress(ImageSegments(file.lcs))
            IN  IF base = None
                THEN error' = "CLEInvalidBinaryError"
                ELSE /\ error' = "none"
                     /\ lc_function_starts'
                          = RunningSums(base, Deltas(Read(CurCmd.dataoff, CurCmd.datasize), 0))]_vars

\* the loop of _resolve_symbols is at a stab symbol
AtStab == pc = "symbols" /\ sym_i <= Len(symbols) /\ is_stab(symbols[sym_i])

\* the sum of the sizes of the non-stab symbols with a synthetic address
RECURSIVE SyntheticSize(_)
SyntheticSize(syms) ==
    IF syms = <<>> THEN 0
    ELSE (IF ~is_stab(Head(syms)) /\ Head(syms).addr.base = "ext" THEN Head(syms).size ELSE 0)
         + SyntheticSize(Tail(syms))

\* C17: processing a stab symbol changes nothing but its export marker
\* (name in exports_by_name): its addr stays None, its size and its library,
\* segment and section names are as they were, no other symbol changes and
\* the external cursor does not move; a stab is never indexed by address, and
\* the external backer is as long as the sizes of the non-stab symbols with a
\* synthetic address add up to.
C17_StabFrame ==
    /\ [][AtStab =>
            /\ symbols' = [symbols EXCEPT ![sym_i].is_export =
                                symbols[sym_i].name \in DOMAIN exports_by_name]
            /\ symbols'[sym_i].addr = AddrNone
            /\ ext_symbol_end' = ext_symbol_end
            /\ symbols_by_addr' = symbols_by_addr
            /\ error' = "none"]_vars
    /\ [](SymbolsResolved =>
            /\ \A e \in symbols_by_addr : ~is_stab(symbols[e[2]])
            /\ backers[Len(backers)].addr = Ext(0)
            /\ BlobLen(backers[Len(backers)].data) = SyntheticSize(symbols))

\* a stab named like an export was marked and skipped, and a symbol behind
\* it got the first address of the external area
C17_Witness ==
    /\ SymbolsResolved
    /\ Len(symbols) = 2
    /\ is_stab(symbols[1]) /\ symbols[1].is_export /\ symbols[1].addr = AddrNone
    /\ ~is_stab(symbols[2]) /\ symbols[2].addr = Ext(0)
    /\ BlobLen(backers[Len(backers)].data) = symbols[2].size

====
